---- MODULE Spec2Model ----
\* Model of add-syntax (src/src/lib.rs): the attribute macros `prepend` and
\* `append`, and the helper `split_attrs` that separates an item's leading
\* `#[...]` attributes from the rest of its tokens.
EXTENDS Integers, Sequences, FiniteSets, TLC

\* ---------------------------------------------------------------- bounds
MaxItemLen == 4
MaxAttrLen == 1

\* ---------------------------------------------------------------- tokens
\* proc_macro::Delimiter
Delimiter == {"Parenthesis", "Brace", "Bracket", "None"}

\* proc_macro::TokenTree, reduced to what lib.rs can observe of a token:
\* its variant, Punct::as_char, the Punct's spacing, Group::delimiter.
Punct(c, sp) == [kind |-> "Punct", ch |-> c, spacing |-> sp, delim |-> "-"]
Group(d) == [kind |-> "Group", ch |-> "-", spacing |-> "-", delim |-> d]
Ident == [kind |-> "Ident", ch |-> "-", spacing |-> "-", delim |-> "-"]

\* The tokens the inputs are drawn from. A Literal takes the same path as
\* an Ident through every match of lib.rs (neither variant is named there),
\* so Ident stands for both.
TokenTree ==
    {Punct("#", "Alone"), Punct("!", "Joint")}
        \cup {Group(d) : d \in Delimiter} \cup {Ident}

\* A token of a stream carries its span: which input it was written in and
\* at which position, so that two tokens of one invocation are never equal.
Spanned(t, s, i) ==
    [kind |-> t.kind, ch |-> t.ch, spacing |-> t.spacing, delim |-> t.delim,
     src |-> s, pos |-> i]

\* proc_macro::TokenStream: the streams of at most n tokens written in s.
TokenStream(s, n) ==
    UNION {{[i \in 1..k |-> Spanned(f[i], s, i)] : f \in [1..k -> TokenTree]}
               : k \in 0..n}

\* Option<TokenTree>
None == <<>>
Some(t) == <<t>>

\* ------------------------------------------------------------ split_attrs
\* Iterator::next on `item.into_iter().fuse()`: the next token and the
\* advanced iterator; once exhausted it keeps answering None.
next(iter) ==
    IF iter = <<>>
    THEN [tok |-> None, iter |-> <<>>]
    ELSE [tok |-> Some(Head(iter)), iter |-> Tail(iter)]

\* `[iter.next(), iter.next()]`, evaluated left to right.
next2(iter) ==
    LET n1 == next(iter)
        n2 == next(n1.iter)
    IN  [trees |-> <<n1.tok, n2.tok>>, iter |-> n2.iter]

MatchesAttr_AnyDelim(trees) ==
    /\ trees[1] # None
    /\ trees[2] # None
    /\ trees[1][1].kind = "Punct"
    /\ trees[2][1].kind = "Group"
    /\ trees[1][1].ch = "#"

MatchesAttr_Parenthesis(trees) ==
    /\ trees[1] # None
    /\ trees[2] # None
    /\ trees[1][1].kind = "Punct"
    /\ trees[2][1].kind = "Group"
    /\ trees[1][1].ch = "#"
    /\ trees[2][1].delim = "Parenthesis"

MatchesAttr_NoChar(trees) ==
    /\ trees[1] # None
    /\ trees[2] # None
    /\ trees[1][1].kind = "Punct"
    /\ trees[2][1].kind = "Group"
    /\ trees[2][1].delim = "Bracket"

\* The first match arm: `[Some(Punct(p)), Some(Group(g))]
\*     if (p.as_char(), g.delimiter()) == ('#', Bracket)`.
MatchesAttr(trees) ==
    /\ trees[1] # None
    /\ trees[2] # None
    /\ trees[1][1].kind = "Punct"
    /\ trees[2][1].kind = "Group"
    /\ trees[1][1].ch = "#"
    /\ trees[2][1].delim = "Bracket"

\* `attrs.extend([p.into(), g.into()])`
ExtendAttrs(attrs, trees) == attrs \o <<trees[1][1], trees[2][1]>>

TakeTrees_DropSecond(trees) == trees[1]

TakeTrees_Swapped(trees) == trees[2] \o trees[1]

\* `trees.iter_mut().flat_map(Option::take)`: the peeked tokens that are
\* present, first slot first.
TakeTrees(trees) == trees[1] \o trees[2]

\* `trees.chain(iter).collect()`
ChainRest(trees, iter) == TakeTrees(trees) \o iter

\* split_attrs as a function: the loop run to its return, with the number
\* of iterations it took.
RECURSIVE split_loop(_, _, _)
split_loop(iter, attrs, n) ==
    LET nx == next2(iter)
    IN  IF MatchesAttr(nx.trees)
        THEN split_loop(nx.iter, ExtendAttrs(attrs, nx.trees), n + 1)
        ELSE [attrs |-> attrs, rest |-> ChainRest(nx.trees, nx.iter),
              iterations |-> n + 1]

split_attrs(item) == split_loop(item, <<>>, 0)

\* ---------------------------------------------------------------- prepend
PrependChain_RestFirst(item_attrs, attr, rest) == item_attrs \o rest \o attr

PrependChain_AttrFirst(item_attrs, attr, rest) == attr \o item_attrs \o rest

\* `item_attrs.extend(attr.into_iter().chain(rest)); item_attrs`
PrependChain(item_attrs, attr, rest) == item_attrs \o attr \o rest

prepend(attr, item) ==
    LET s == split_attrs(item)
    IN  PrependChain(s.attrs, attr, s.rest)

\* ----------------------------------------------------------------- append
append_Front(attr, item) == attr \o item

\* `item.extend(attr); item`
append(attr, item) == item \o attr

\* ------------------------------------------------------------------ state
VARIABLES
    item,        \* the item tokens the host passed
    attr,        \* the tokens written inside the attribute
    op,          \* the macro the host invoked: "none", "prepend", "append"
    pc,          \* "start", "loop", "split_ret", "done"
    iter,        \* split_attrs: what the fused iterator still holds
    attrs,       \* split_attrs: the `attrs` vector / returned attrs stream
    trees,       \* split_attrs: the last two lookahead slots
    rest,        \* split_attrs: the returned rest stream
    iterations,  \* split_attrs: loop iterations begun
    result       \* the stream returned to the host

vars == <<item, attr, op, pc, iter, attrs, trees, rest, iterations, result>>

Init ==
    /\ item \in TokenStream("item", MaxItemLen)
    /\ attr \in TokenStream("attr", MaxAttrLen)
    /\ op = "none"
    /\ pc = "start"
    /\ iter = <<>>
    /\ attrs = <<>>
    /\ trees = <<None, None>>
    /\ rest = <<>>
    /\ iterations = 0
    /\ result = <<>>

\* The host invokes `append`: the whole body is one extend.
AppendCall ==
    /\ pc = "start"
    /\ op' = "append"
    /\ result' = append(attr, item)
    /\ pc' = "done"
    /\ UNCHANGED <<item, attr, iter, attrs, trees, rest, iterations>>

\* The host invokes `prepend`, which enters split_attrs(item): an empty
\* `attrs` vector and a fused iterator over the item.
PrependCall ==
    /\ pc = "start"
    /\ op' = "prepend"
    /\ attrs' = <<>>
    /\ iter' = item
    /\ pc' = "loop"
    /\ UNCHANGED <<item, attr, trees, rest, iterations, result>>

\* One loop iteration taking the first match arm.
LoopMatch ==
    /\ pc = "loop"
    /\ LET nx == next2(iter)
       IN  /\ MatchesAttr(nx.trees)
           /\ trees' = nx.trees
           /\ attrs' = ExtendAttrs(attrs, nx.trees)
           /\ iter' = nx.iter
    /\ iterations' = iterations + 1
    /\ UNCHANGED <<item, attr, op, pc, rest, result>>

\* One loop iteration taking the catch-all arm, which returns.
LoopReturn ==
    /\ pc = "loop"
    /\ LET nx == next2(iter)
       IN  /\ ~MatchesAttr(nx.trees)
           /\ trees' = nx.trees
           /\ rest' = ChainRest(nx.trees, nx.iter)
           /\ iter' = nx.iter
    /\ iterations' = iterations + 1
    /\ pc' = "split_ret"
    /\ UNCHANGED <<item, attr, op, attrs, result>>

\* Back in `prepend` with (item_attrs, rest): extend and return.
PrependExtend ==
    /\ pc = "split_ret"
    /\ result' = PrependChain(attrs, attr, rest)
    /\ pc' = "done"
    /\ UNCHANGED <<item, attr, op, iter, attrs, trees, rest, iterations>>

Next ==
    \/ AppendCall
    \/ PrependCall
    \/ LoopMatch
    \/ LoopReturn
    \/ PrependExtend

Spec == Init /\ [][Next]_vars

FairSpec == Spec /\ WF_vars(Next)

\* ------------------------------------------------- vocabulary of the claims
\* An Annotation Pair: a '#' punctuation immediately followed by a
\* bracket-delimited group.
IsAnnotationPair(a, b) ==
    /\ a.kind = "Punct" /\ a.ch = "#"
    /\ b.kind = "Group" /\ b.delim = "Bracket"

BeginsWithPair(t) == Len(t) >= 2 /\ IsAnnotationPair(t[1], t[2])

\* k pairs stand at the front of t.
HasLeadingPairs(t, k) ==
    /\ 2 * k <= Len(t)
    /\ \A i \in 0..(k - 1) : IsAnnotationPair(t[2 * i + 1], t[2 * i + 2])

\* The largest such k.
NumLeadingPairs(t) ==
    CHOOSE k \in 0..Len(t) :
        /\ HasLeadingPairs(t, k)
        /\ \A j \in 0..Len(t) : HasLeadingPairs(t, j) => j <= k

LeadingAttrs(t) == SubSeq(t, 1, 2 * NumLeadingPairs(t))

AfterAttrs(t) == SubSeq(t, 2 * NumLeadingPairs(t) + 1, Len(t))

IsPrefix(s, t) == Len(s) <= Len(t) /\ SubSeq(t, 1, Len(s)) = s

\* split_attrs has returned (attrs, rest) to prepend.
SplitReturned == op = "prepend" /\ pc \in {"split_ret", "done"}

PrependDone == op = "prepend" /\ pc = "done"

AppendDone == op = "append" /\ pc = "done"

\* ------------------------------------------------------------------ claims
\* C1: round trip of the splitter: attrs followed by rest is the item,
\* token for token and in order, whatever was peeked.
C1_RoundTrip == SplitReturned => attrs \o rest = item

\* C1 witness: a pair was taken, then a non-matching pair was peeked and
\* both of its tokens went back to the front of a longer rest.
C1_Witness ==
    /\ SplitReturned
    /\ Len(attrs) = 2
    /\ trees[1] # None /\ trees[2] # None
    /\ Len(rest) = 2
    /\ rest[1].kind = "Punct" /\ rest[1].ch = "#"

\* C2: prepend returns the item's leading Annotation Pairs, then all of the
\* injected tokens, then the remaining item tokens.
C2_PrependSplice ==
    PrependDone => result = LeadingAttrs(item) \o attr \o AfterAttrs(item)

\* C2 witness: `#[a] #[b]` with one token injected right after the second
\* attribute.
C2_Witness ==
    /\ PrependDone
    /\ NumLeadingPairs(item) = 2
    /\ Len(attr) = 1
    /\ result[5] = attr[1]

\* C3 as stated: re-splitting append's output gives the attrs of the item,
\* for every injected stream and every item.
C3_Original ==
    AppendDone => split_attrs(result).attrs = split_attrs(item).attrs

\* C3 amended: re-splitting append's output gives the attrs of the item
\* unless split_attrs(item).rest followed by the injected tokens begins with
\* an Annotation Pair, which needs a rest of fewer than two tokens.
C3_AppendKeepsAttrs ==
    AppendDone =>
        LET s == split_attrs(item)
        IN  /\ ~BeginsWithPair(s.rest \o attr) =>
                   split_attrs(result).attrs = s.attrs
            /\ BeginsWithPair(s.rest \o attr) => Len(s.rest) < 2

\* C3 witness: a one-token rest that the injected token does not complete
\* to a pair, after one recognized attribute.
C3_Witness ==
    /\ AppendDone
    /\ Len(split_attrs(item).attrs) = 2
    /\ Len(split_attrs(item).rest) = 1
    /\ Len(attr) = 1
    /\ attr[1].kind = "Group" /\ attr[1].delim = "Brace"
    /\ item[3].kind = "Punct" /\ item[3].ch = "#"

\* C4: the returned rest has fewer than two tokens or does not begin with
\* an Annotation Pair.
C4_Maximal ==
    SplitReturned =>
        \/ Len(rest) < 2
        \/ ~IsAnnotationPair(rest[1], rest[2])

\* C4 witness: the scan stopped on '#' followed by a non-bracket group, with
\* an Annotation Pair further along in rest.
C4_Witness ==
    /\ SplitReturned
    /\ Len(rest) = 4
    /\ rest[1].kind = "Punct" /\ rest[1].ch = "#"
    /\ rest[2].kind = "Group"
    /\ IsAnnotationPair(rest[3], rest[4])

\* C5: append returns the item followed by the injected tokens.
C5_AppendConcat == AppendDone => result = item \o attr

\* C5 witness: an item with an attribute and a braced body, one token
\* appended after the closing brace.
C5_Witness ==
    /\ AppendDone
    /\ Len(item) = 4
    /\ IsAnnotationPair(item[1], item[2])
    /\ item[4].kind = "Group" /\ item[4].delim = "Brace"
    /\ Len(attr) = 1
    /\ result[5] = attr[1]

\* C6: with nothing injected prepend and append return the item, and the
\* split of the empty stream is (empty, empty).
C6_EmptyIdentities ==
    /\ (pc = "done" /\ attr = <<>>) => result = item
    /\ (SplitReturned /\ item = <<>>) => (attrs = <<>> /\ rest = <<>>)

\* C6 witness: prepend of nothing onto an item with an attribute and an odd
\* number of tokens after it.
C6_Witness ==
    /\ PrependDone
    /\ attr = <<>>
    /\ Len(attrs) = 2
    /\ Len(rest) = 1

\* C7: attrs is the maximal front run of Annotation Pairs and rest is
\* everything after it.
C7_MaximalFrontRun ==
    SplitReturned =>
        /\ attrs = LeadingAttrs(item)
        /\ rest = AfterAttrs(item)
        /\ ~BeginsWithPair(item) => (attrs = <<>> /\ rest = item)
        /\ 2 * NumLeadingPairs(item) = Len(item) => rest = <<>>

\* C7 witness: `x #[a]`-shaped input: no leading pair, and the later pair
\* stays in rest.
C7_Witness ==
    /\ SplitReturned
    /\ attrs = <<>>
    /\ Len(rest) = 3
    /\ rest[1].kind = "Ident"
    /\ IsAnnotationPair(rest[2], rest[3])

\* C8: every invocation runs to its return: no state short of the return is
\* stuck, the loop makes NumLeadingPairs + 1 iterations, each non-final one
\* takes two tokens, and a slot read past the end is None.
C8_Inv ==
    /\ pc # "done" => ENABLED Next
    /\ pc = "loop" =>
           /\ Len(item) - Len(iter) = 2 * iterations
           /\ iterations <= NumLeadingPairs(item)
    /\ SplitReturned =>
           /\ iterations = NumLeadingPairs(item) + 1
           /\ Len(item) - 2 * NumLeadingPairs(item) < 2 => trees[2] = None
           /\ Len(item) - 2 * NumLeadingPairs(item) < 1 => trees[1] = None

C8_Step ==
    /\ (pc = "loop" /\ pc' = "loop") => Len(iter') = Len(iter) - 2
    /\ pc = "loop" => iterations' = iterations + 1
    /\ pc = "done" => UNCHANGED vars

C8_Total == [](C8_Inv) /\ [][C8_Step]_vars /\ <>(pc = "done")

\* C8 witness: one pair, then a lone token: the second slot is read past
\* the end on the second and final iteration.
C8_Witness ==
    /\ SplitReturned
    /\ Len(item) = 3
    /\ iterations = 2
    /\ trees[1] # None /\ trees[2] = None

\* C9: when split_attrs(item).rest has at least two tokens, re-splitting
\* append's output gives the same attrs and rest followed by the injected
\* tokens; attrs can only change when rest has zero or one token.
C9_AppendLongRest ==
    AppendDone =>
        LET s == split_attrs(item)
            r == split_attrs(result)
        IN  /\ Len(s.rest) >= 2 =>
                   (r.attrs = s.attrs /\ r.rest = s.rest \o attr)
            /\ r.attrs # s.attrs => Len(s.rest) \in {0, 1}

\* C9 witness: an attribute, a two-token rest ending in '#', and a bracket
\* group appended right after it.
C9_Witness ==
    /\ AppendDone
    /\ Len(split_attrs(item).attrs) = 2
    /\ Len(split_attrs(item).rest) = 2
    /\ item[4].kind = "Punct" /\ item[4].ch = "#"
    /\ Len(attr) = 1
    /\ attr[1].kind = "Group" /\ attr[1].delim = "Bracket"

\* C10: re-splitting prepend's output gives attrs that extend the item's
\* attrs, and exactly the item's attrs when the injected tokens followed by
\* rest do not begin with an Annotation Pair; under that condition a further
\* prepend of X composes into one prepend of X followed by the injected
\* tokens.
C10_PrependCompose ==
    PrependDone =>
        LET s == split_attrs(item)
            r == split_attrs(result)
        IN  /\ IsPrefix(s.attrs, r.attrs)
            /\ r.attrs = s.attrs <=> ~BeginsWithPair(attr \o s.rest)
            /\ ~BeginsWithPair(attr \o s.rest) =>
                   \A X \in TokenStream("outer", MaxAttrLen) :
                       prepend(X, result) = prepend(X \o attr, item)

\* C10 witness: an attribute, a rest starting with a bracket group, and a
\* non-'#' token injected between them.
C10_Witness ==
    /\ PrependDone
    /\ Len(attrs) = 2
    /\ Len(attr) = 1
    /\ attr[1].kind = "Punct" /\ attr[1].ch = "!"
    /\ Len(rest) = 2
    /\ rest[1].kind = "Group" /\ rest[1].delim = "Bracket"

====
